---- MODULE Spec2Model ----
(***************************************************************************)
(* calculon: a TCP line protocol over one shared f64 cell guarded by a     *)
(* mutex (src/calculon/src/main.rs).  main binds a listener and spawns one *)
(* process_request task per accepted connection; every task reads lines,   *)
(* tokenises them and calls add / subtract / power / show on the cell.     *)
(*                                                                         *)
(* communotron: a producer, two collector threads and a reporter joined by *)
(* mpsc channels, with a counter of created work behind a mutex            *)
(* (src/communotron/src/main.rs).                                          *)
(***************************************************************************)
EXTENDS Integers, Sequences, FiniteSets, TLC

(***************************************************************************)
(* Bounds of the model.                                                    *)
(***************************************************************************)
\* connection slots of the model
MaxSessions == 3
\* connections the listener accepts in one run of Spec and of SpecFold
MaxAccepts == 2
\* lines the peers send in one run of Spec, over all connections
MaxLines == 3
\* lines the peers send in one run of SpecAdd1, over all connections
AddLines == 5
\* lines the peers send in one run of SpecFold, over all connections
FoldLines == 4
\* connections accepted and lines sent in one run of SpecIdent
IdentSessions == 1
IdentLen == 3
\* work items generate_work creates in one run of SpecComm
MaxWork == 3
\* largest container of the model (the program draws sizes from 1..10)
MaxContainer == 2
\* largest |x| at which a peer of SpecFold still sends POWER 2
MaxBase == 625

Sessions == 1..MaxSessions

(***************************************************************************)
(* f64 values.  The finite values of the model are the integers (exact in  *)
(* f64 far beyond the range the bounds reach), plus the IEEE specials.     *)
(***************************************************************************)
Num(n) == [k |-> "num", n |-> n]
PosInf == [k |-> "inf", n |-> 0]
NegInf == [k |-> "ninf", n |-> 0]
NaN == [k |-> "nan", n |-> 0]
NegZero == [k |-> "nzero", n |-> 0]

\* negation without a signed zero
Neg_unsigned_zero(a) ==
    CASE a.k = "nan" -> NaN
      [] a.k = "inf" -> NegInf
      [] a.k = "ninf" -> PosInf
      [] a.k = "nzero" -> Num(0)
      [] OTHER -> Num(0 - a.n)

\* IEEE negation (used by a - b = a + (-b))
Neg(a) ==
    CASE a.k = "nan" -> NaN
      [] a.k = "inf" -> NegInf
      [] a.k = "ninf" -> PosInf
      [] a.k = "nzero" -> Num(0)
      [] OTHER -> IF a.n = 0 THEN NegZero ELSE Num(0 - a.n)

\* IEEE addition, round to nearest: guarded_state.x + value
FAdd(a, b) ==
    CASE a.k = "nan" \/ b.k = "nan" -> NaN
      [] a.k = "inf" -> IF b.k = "ninf" THEN NaN ELSE PosInf
      [] a.k = "ninf" -> IF b.k = "inf" THEN NaN ELSE NegInf
      [] b.k = "inf" -> PosInf
      [] b.k = "ninf" -> NegInf
      [] a.k = "nzero" -> b
      [] b.k = "nzero" -> a
      [] OTHER -> Num(a.n + b.n)

\* IEEE subtraction: guarded_state.x - value
FSub(a, b) == FAdd(a, Neg(b))

IsZero(a) == a.k = "nzero" \/ (a.k = "num" /\ a.n = 0)
IsOddInt(a) == a.k = "num" /\ a.n % 2 = 1
\* -1 < a < 1, a > 1 or a < -1, for the infinite exponents of powf
AbsBelowOne(a) == IsZero(a)
AbsAboveOne(a) == a.k \in {"inf", "ninf"} \/ (a.k = "num" /\ (a.n > 1 \/ a.n < 0 - 1))

\* f64::powf on the model's values (C pow semantics), for an exponent that is
\* zero, a non-negative integer, an infinity or NaN, and for a negative
\* integer exponent when the base is infinite, a zero or -1 (the reciprocal
\* of any other finite base is not among the model's values).
FPow(x, y) ==
    CASE IsZero(y) -> Num(1)
      [] x = Num(1) -> Num(1)
      [] x.k = "nan" \/ y.k = "nan" -> NaN
      [] y.k = "inf" -> IF AbsBelowOne(x) THEN Num(0)
                        ELSE IF AbsAboveOne(x) THEN PosInf ELSE Num(1)
      [] y.k = "ninf" -> IF AbsBelowOne(x) THEN PosInf
                         ELSE IF AbsAboveOne(x) THEN Num(0) ELSE Num(1)
      [] y.n < 0 ->
            (CASE x.k = "inf" -> Num(0)
               [] x.k = "ninf" -> IF IsOddInt(y) THEN NegZero ELSE Num(0)
               [] x.k = "nzero" -> IF IsOddInt(y) THEN NegInf ELSE PosInf
               [] x = Num(0) -> PosInf
               [] x = Num(0 - 1) -> IF IsOddInt(y) THEN Num(0 - 1) ELSE Num(1))
      [] x.k = "inf" -> PosInf
      [] x.k = "ninf" -> IF IsOddInt(y) THEN NegInf ELSE PosInf
      [] x.k = "nzero" -> IF IsOddInt(y) THEN NegZero ELSE Num(0)
      [] OTHER -> Num(x.n ^ y.n)

\* Display of an f64 ({new_value}, {operand}, {value} in format!)
Fmt(v) ==
    CASE v.k = "nan" -> "NaN"
      [] v.k = "inf" -> "inf"
      [] v.k = "ninf" -> "-inf"
      [] v.k = "nzero" -> "-0"
      [] OTHER -> ToString(v.n)

(***************************************************************************)
(* Lines and tokens.  A line is the sequence of its pieces: maximal runs   *)
(* of whitespace (WS) and maximal runs of other characters (the words).    *)
(***************************************************************************)
WS == " "

\* str::split_whitespace().collect(): the words of the line, in order
SplitWhitespace(line) == SelectSeq(line, LAMBDA piece : piece # WS)

\* The decimal literals of the model and the f64 each parses to.
Literal ==
    ("0" :> Num(0)) @@ ("1" :> Num(1)) @@ ("2" :> Num(2)) @@ ("1.0" :> Num(1))
    @@ ("5" :> Num(5)) @@ ("25" :> Num(25))
    @@ ("-0" :> NegZero) @@ ("inf" :> PosInf) @@ ("NaN" :> NaN)
    @@ ("-1" :> Num(0 - 1)) @@ ("-inf" :> NegInf)

\* str::parse::<f64>(): Ok(value) or Err
ParseF64(tok) ==
    IF tok \in DOMAIN Literal THEN [ok |-> TRUE, v |-> Literal[tok]]
    ELSE [ok |-> FALSE, v |-> NaN]

Greeting == "ADD 1.23/SUBTRACT 1.23/POWER 1.23/SHOW\r\n"

\* the four format! strings of the responses
FmtAdd(operand, new_value) ==
    "X += " \o Fmt(operand) \o " = " \o Fmt(new_value) \o "\r\n"
FmtSubtract(operand, new_value) ==
    "X -= " \o Fmt(operand) \o " = " \o Fmt(new_value) \o "\r\n"
FmtPower(operand, new_value) ==
    "X ^= " \o Fmt(operand) \o " = " \o Fmt(new_value) \o "\r\n"
FmtShow(value) == "X = " \o Fmt(value) \o "\r\n"
FmtUnknown(word) == "Unknown command: " \o word \o "\r\n"

Mutating == {"ADD", "SUBTRACT", "POWER"}
Commands == Mutating \cup {"SHOW"}

\* The lines a client sends in the model: every arm of the match, with a
\* right and a wrong token count, a parsable and an unparsable operand.
Lines ==
    { <<>>, <<WS>>,
      <<"ADD", WS, "1">>, <<WS, "ADD", WS, "1", WS>>,
      <<"ADD">>, <<"ADD", WS, "abc">>, <<"ADD", WS, "abc", WS, "def">>,
      <<"ADD", WS, "1", WS, "2">>,
      <<"SUBTRACT", WS, "1">>, <<"SUBTRACT">>,
      <<"SUBTRACT", WS, "abc">>,
      <<"POWER", WS, "2">>, <<"POWER", WS, "x">>,
      <<"POWER", WS, "2", WS, "2">>,
      <<"SHOW">>, <<"SHOW", WS, "1">>,
      <<"add", WS, "1", WS, "2">> }

(***************************************************************************)
(* State.                                                                  *)
(***************************************************************************)
VARIABLES
    main_pc,     \* main: "bind", "accept" (in the loop), "exit" (returned Err)
    x,           \* GlobalState.x
    mutex,       \* the Mutex around GlobalState: 0 when free, else the holder
    pc,          \* per session: where process_request (and add/.../show) is
    words,       \* per session: the tokens of the line being processed
    operand,     \* per session: the parsed operand
    new_value,   \* per session: new_value of add/subtract/power, value of show
    resp,        \* per session: the bytes handed to write_all
    nwritten,    \* per session: lines write_all has put on the socket so far
    \* history variables, written by no code, read by the properties only
    last,        \* the step just taken: the session that read a line and the
                 \* kind of line it read, <<0, "none">> after any other step
    nlines,      \* lines next_line has returned so far, over all sessions
    serial,      \* the commands applied so far, one after another, to 0.0
    issued,      \* well-formed ADD/SUBTRACT/POWER lines dispatched so far
    applied,     \* stores into GlobalState.x so far
    solo,        \* whose lines have been read so far: 0 nobody's, s only
                 \* session s's, -1 those of several sessions
    fold,        \* while solo is a session: its commands folded over 0.0 in
                 \* line order
    due          \* per session: lines read so far that call for a response

\* communotron
VARIABLES
    gen_pc,              \* generate_work: "input", "count", "send"; "exit"
                         \* once main has returned its error
    work_created,        \* the Mutex<usize> generate_work counts in
    apples_rx,           \* the FillContainerMessage<Apple> channel: the
                         \* container sizes of the orders not yet received
    oranges_rx,          \* the same for FillContainerMessage<Orange>
    ready_rx,            \* the ContainerFilledMessage channel
    apples_order,        \* collect_apples: the size of the container of the
                         \* work_order in hand, 0 when waiting on rx
    oranges_order,       \* collect_oranges: the same
    message,             \* report_results: the message in hand, <<>> when
                         \* waiting on rx
    work_completed,      \* report_results: work_completed
    work_created_value   \* report_results: work_created_value of the last report

calcVars == <<main_pc, x, mutex, pc, words, operand, new_value, resp, nwritten,
              last, nlines, serial, issued, applied, solo, fold, due>>

commVars == <<gen_pc, work_created, apples_rx, oranges_rx, ready_rx,
              apples_order, oranges_order, message, work_completed,
              work_created_value>>

vars == <<calcVars, commVars>>

sessionVars == <<pc, words, operand, new_value, resp, nwritten>>
history == <<nlines, serial, issued, applied, solo, fold, due>>

\* a step that reads no line
NoRead == last' = <<0, "none">>

\* the command applied to a value: what add / subtract / power compute
Apply(cmd, v, arg) ==
    CASE cmd = "ADD" -> FAdd(v, arg)
      [] cmd = "SUBTRACT" -> FSub(v, arg)
      [] cmd = "POWER" -> FPow(v, arg)
      [] OTHER -> v

Init ==
    /\ main_pc = "bind"
    /\ x = Num(0)
    /\ mutex = 0
    /\ pc = [s \in Sessions |-> "idle"]
    /\ words = [s \in Sessions |-> <<>>]
    /\ operand = [s \in Sessions |-> Num(0)]
    /\ new_value = [s \in Sessions |-> Num(0)]
    /\ resp = [s \in Sessions |-> ""]
    /\ nwritten = [s \in Sessions |-> 0]
    /\ nlines = 0
    /\ last = <<0, "none">>
    /\ serial = Num(0)
    /\ issued = 0
    /\ applied = 0
    /\ solo = 0
    /\ fold = Num(0)
    /\ due = [s \in Sessions |-> 0]
    \* communotron: main before generate_work is called
    /\ gen_pc = "input"
    /\ work_created = 0
    /\ apples_rx = <<>>
    /\ oranges_rx = <<>>
    /\ ready_rx = <<>>
    /\ apples_order = 0
    /\ oranges_order = 0
    /\ message = <<>>
    /\ work_completed = 0
    /\ work_created_value = 0

(***************************************************************************)
(* main: bind, then the accept loop.                                       *)
(***************************************************************************)
\* TcpListener::bind(..).await? succeeds
BindOk ==
    /\ main_pc = "bind"
    /\ main_pc' = "accept"
    /\ NoRead
    /\ UNCHANGED commVars
    /\ UNCHANGED <<x, mutex, sessionVars, history>>

\* TcpListener::bind(..).await? fails: main returns the error
BindFail ==
    /\ main_pc = "bind"
    /\ main_pc' = "exit"
    /\ NoRead
    /\ UNCHANGED commVars
    /\ UNCHANGED <<x, mutex, sessionVars, history>>

\* a session spawned straight into its read loop, the greeting left out
Accept_no_greeting(s, limit) ==
    /\ main_pc = "accept"
    /\ s <= limit
    /\ pc[s] = "idle"
    /\ \A t \in Sessions : t < s => pc[t] # "idle"
    /\ pc' = [pc EXCEPT ![s] = "read"]
    /\ NoRead
    /\ UNCHANGED commVars
    /\ UNCHANGED <<main_pc, x, mutex, words, operand, new_value, resp, nwritten,
                   history>>

\* process_request awaited inside the accept loop instead of spawned: the
\* next accept waits for the session before it to end
Accept_inline(s, limit) ==
    /\ main_pc = "accept"
    /\ s <= limit
    /\ pc[s] = "idle"
    /\ \A t \in Sessions : t < s => pc[t] = "done"
    /\ pc' = [pc EXCEPT ![s] = "greet"]
    /\ resp' = [resp EXCEPT ![s] = Greeting]
    /\ NoRead
    /\ UNCHANGED commVars
    /\ UNCHANGED <<main_pc, x, mutex, words, operand, new_value, nwritten, history>>

\* a GlobalState made per connection instead of cloned from the one of main
Accept_fresh_cell(s, limit) ==
    /\ main_pc = "accept"
    /\ s <= limit
    /\ pc[s] = "idle"
    /\ \A t \in Sessions : t < s => pc[t] # "idle"
    /\ pc' = [pc EXCEPT ![s] = "greet"]
    /\ resp' = [resp EXCEPT ![s] = Greeting]
    /\ x' = Num(0)
    /\ NoRead
    /\ UNCHANGED commVars
    /\ UNCHANGED <<main_pc, mutex, words, operand, new_value, nwritten, history>>

\* listener.accept().await? succeeds: tokio::spawn(process_request(..)).
\* Connections take the session numbers in the order they are accepted.
Accept(s, limit) ==
    /\ main_pc = "accept"
    /\ s <= limit
    /\ pc[s] = "idle"
    /\ \A t \in Sessions : t < s => pc[t] # "idle"
    /\ pc' = [pc EXCEPT ![s] = "greet"]
    /\ resp' = [resp EXCEPT ![s] = Greeting]
    /\ NoRead
    /\ UNCHANGED commVars
    /\ UNCHANGED <<main_pc, x, mutex, words, operand, new_value, nwritten, history>>

\* the locals of one pass of the loop body go out of scope
EndOfPass(s) ==
    /\ words' = [words EXCEPT ![s] = <<>>]
    /\ operand' = [operand EXCEPT ![s] = Num(0)]
    /\ new_value' = [new_value EXCEPT ![s] = Num(0)]
    /\ resp' = [resp EXCEPT ![s] = ""]

\* listener.accept().await? fails: the ? returns the error from main
AcceptFail ==
    /\ main_pc = "accept"
    /\ main_pc' = "exit"
    /\ NoRead
    /\ UNCHANGED commVars
    /\ UNCHANGED <<x, mutex, sessionVars, history>>

\* main has returned: the runtime is dropped and every task still alive is
\* dropped with it, at the .await it is suspended in or reaches next
Dropped(s) ==
    /\ main_pc = "exit"
    /\ pc[s] \in {"greet", "read", "write"}
    /\ pc' = [pc EXCEPT ![s] = "done"]
    /\ EndOfPass(s)
    /\ NoRead
    /\ UNCHANGED commVars
    /\ UNCHANGED <<main_pc, x, mutex, nwritten, history>>

(***************************************************************************)
(* process_request.                                                        *)
(***************************************************************************)
\* write_stream.write_all(greeting).await? succeeds
Greet(s) ==
    /\ pc[s] = "greet"
    /\ nwritten' = [nwritten EXCEPT ![s] = @ + 1]
    /\ resp' = [resp EXCEPT ![s] = ""]
    /\ pc' = [pc EXCEPT ![s] = "read"]
    /\ NoRead
    /\ UNCHANGED commVars
    /\ UNCHANGED <<main_pc, x, mutex, words, operand, new_value,
                   history>>

\* process_request awaited in the accept loop with ?: its error ends main
WriteFail_propagated(s) ==
    /\ pc[s] \in {"greet", "write"}
    /\ pc' = [pc EXCEPT ![s] = "done"]
    /\ main_pc' = "exit"
    /\ EndOfPass(s)
    /\ NoRead
    /\ UNCHANGED commVars
    /\ UNCHANGED <<x, mutex, nwritten, history>>

\* a failed response write that takes the command back out of the cell
WriteFail_rollback(s) ==
    /\ pc[s] \in {"greet", "write"}
    /\ pc' = [pc EXCEPT ![s] = "done"]
    /\ x' = IF pc[s] = "write" /\ words[s][1] = "ADD" THEN FSub(x, operand[s])
            ELSE IF pc[s] = "write" /\ words[s][1] = "SUBTRACT"
                 THEN FAdd(x, operand[s])
            ELSE x
    /\ EndOfPass(s)
    /\ NoRead
    /\ UNCHANGED commVars
    /\ UNCHANGED <<main_pc, mutex, nwritten, history>>

\* a write_all(..).await? fails, for the greeting or for a response
WriteFail(s) ==
    /\ pc[s] \in {"greet", "write"}
    /\ pc' = [pc EXCEPT ![s] = "done"]
    /\ EndOfPass(s)
    /\ NoRead
    /\ UNCHANGED commVars
    /\ UNCHANGED <<main_pc, x, mutex, nwritten, history>>

\* lines.next_line().await? returns None: the peer closed; Ok(())
ReadEof(s) ==
    /\ pc[s] = "read"
    /\ pc' = [pc EXCEPT ![s] = "done"]
    /\ NoRead
    /\ UNCHANGED commVars
    /\ UNCHANGED <<main_pc, x, mutex, words, operand, new_value, resp, nwritten,
                   history>>

\* lines.next_line().await? fails
ReadFail(s) ==
    /\ pc[s] = "read"
    /\ pc' = [pc EXCEPT ![s] = "done"]
    /\ NoRead
    /\ UNCHANGED commVars
    /\ UNCHANGED <<main_pc, x, mutex, words, operand, new_value, resp, nwritten,
                   history>>

\* the count check as "at least one argument": ADD 1 2 is taken as ADD 1
Dispatch_at_least(w) ==
    IF w = <<>> THEN "continue"
    ELSE IF w[1] \in Mutating
         THEN IF Len(w) < 2 THEN "continue"
              ELSE IF ParseF64(w[2]).ok THEN "call" ELSE "parse_err"
    ELSE IF w[1] = "SHOW" THEN "call"
    ELSE "unknown"

\* the operand that does not parse handled like the wrong count: continue
Dispatch_parse_ignored(w) ==
    IF w = <<>> THEN "continue"
    ELSE IF w[1] \in Mutating
         THEN IF Len(w) # 2 THEN "continue"
              ELSE IF ParseF64(w[2]).ok THEN "call" ELSE "continue"
    ELSE IF w[1] = "SHOW"
         THEN IF Len(w) # 1 THEN "continue" ELSE "call"
    ELSE "unknown"

\* the command name matched without regard to case
Dispatch_ignore_case(w) ==
    IF w = <<>> THEN "continue"
    ELSE IF w[1] \in Mutating \cup {"add", "subtract", "power"}
         THEN IF Len(w) # 2 THEN "continue"
              ELSE IF ParseF64(w[2]).ok THEN "call" ELSE "parse_err"
    ELSE IF w[1] \in {"SHOW", "show"}
         THEN IF Len(w) # 1 THEN "continue" ELSE "call"
    ELSE "unknown"

\* the wrong count reported to the client through the default arm
Dispatch_count_reported(w) ==
    IF w = <<>> THEN "continue"
    ELSE IF w[1] \in Mutating
         THEN IF Len(w) # 2 THEN "unknown"
              ELSE IF ParseF64(w[2]).ok THEN "call" ELSE "parse_err"
    ELSE IF w[1] = "SHOW"
         THEN IF Len(w) # 1 THEN "unknown" ELSE "call"
    ELSE "unknown"

\* the operand parsed before the tokens are counted
Dispatch_parse_first(w) ==
    IF w = <<>> THEN "continue"
    ELSE IF w[1] \in Mutating
         THEN IF Len(w) >= 2 /\ ~ParseF64(w[2]).ok THEN "parse_err"
              ELSE IF Len(w) # 2 THEN "continue" ELSE "call"
    ELSE IF w[1] = "SHOW"
         THEN IF Len(w) # 1 THEN "continue" ELSE "call"
    ELSE "unknown"

\* The arm of the match for the words of one line: where the loop goes next.
\*   "continue": back to next_line, nothing written
\*   "parse_err": words[1].parse::<f64>()? returned the error
\*   "call": add / subtract / power / show is called
\*   "unknown": the default arm writes Unknown command
Dispatch(w) ==
    IF w = <<>> THEN "continue"
    ELSE IF w[1] \in Mutating
         THEN IF Len(w) # 2 THEN "continue"
              ELSE IF ParseF64(w[2]).ok THEN "call" ELSE "parse_err"
    ELSE IF w[1] = "SHOW"
         THEN IF Len(w) # 1 THEN "continue" ELSE "call"
    ELSE "unknown"

\* lines that call for a response line (history only)
CallsForResponse(w) ==
    /\ w # <<>>
    /\ \/ w[1] \notin Commands
       \/ w[1] = "SHOW" /\ Len(w) = 1
       \/ w[1] \in Mutating /\ Len(w) = 2 /\ ParseF64(w[2]).ok

\* a line that is a well-formed ADD / SUBTRACT / POWER (history only)
IsMutation(w) ==
    Len(w) = 2 /\ w[1] \in Mutating /\ ParseF64(w[2]).ok

LineKind(w) ==
    IF w = <<>> THEN "empty"
    ELSE IF w[1] \notin Commands THEN "unknown"
    ELSE IF Len(w) # (IF w[1] = "SHOW" THEN 1 ELSE 2) THEN "count"
    ELSE IF w[1] = "SHOW" \/ ParseF64(w[2]).ok THEN "wellformed"
    ELSE "operand"

\* next_line returns Some(line): one pass of the loop body up to the call
\* of add / subtract / power / show or to the write of the default arm
ReadLine(s, line, limit) ==
    /\ pc[s] = "read"
    /\ nlines < limit
    /\ nlines' = nlines + 1
    /\ last' = <<s, LineKind(SplitWhitespace(line))>>
    /\ LET w == SplitWhitespace(line)
           d == Dispatch(w)
           only == IF solo \in {0, s} THEN s ELSE 0 - 1
       IN /\ words' = [words EXCEPT
                ![s] = IF d \in {"call", "unknown"} THEN w ELSE <<>>]
          /\ operand' = [operand EXCEPT
                ![s] = IF d = "call" /\ w[1] # "SHOW" THEN ParseF64(w[2]).v ELSE @]
          /\ pc' = [pc EXCEPT ![s] =
                CASE d = "continue" -> "read"
                  [] d = "parse_err" -> "done"
                  [] d = "call" -> "lock"
                  [] OTHER -> "write"]
          /\ resp' = [resp EXCEPT
                ![s] = IF d = "unknown" THEN FmtUnknown(w[1]) ELSE @]
          /\ issued' = IF IsMutation(w) THEN issued + 1 ELSE issued
          /\ solo' = only
          /\ fold' = IF only # s THEN Num(0)
                     ELSE IF IsMutation(w) THEN Apply(w[1], fold, ParseF64(w[2]).v)
                     ELSE fold
          /\ due' = [due EXCEPT ![s] = IF CallsForResponse(w) THEN @ + 1 ELSE @]
    /\ UNCHANGED <<main_pc, x, mutex, new_value, nwritten, serial, applied>>
    /\ UNCHANGED commVars

\* a lock that excludes nobody
MutexNeverHeld == TRUE

\* Mutex::lock() returns only when no other guard is alive
MutexFree == mutex = 0

\* global_state.as_ref().lock().unwrap(), first line of add/subtract/power/show
Lock(s) ==
    /\ pc[s] = "lock"
    /\ MutexFree
    /\ mutex' = s
    /\ pc' = [pc EXCEPT ![s] = "locked"]
    /\ NoRead
    /\ UNCHANGED commVars
    /\ UNCHANGED <<main_pc, x, words, operand, new_value, resp, nwritten, history>>

\* add with the guard a temporary of the read: the lock is gone before the store
add_guard_dropped(s) ==
    /\ pc[s] = "locked" /\ words[s][1] = "ADD"
    /\ new_value' = [new_value EXCEPT ![s] = FAdd(x, operand[s])]
    /\ mutex' = 0
    /\ pc' = [pc EXCEPT ![s] = "store"]
    /\ NoRead
    /\ UNCHANGED commVars
    /\ UNCHANGED <<main_pc, x, words, operand, resp, nwritten, history>>

\* add: let new_value = guarded_state.x + value
add(s) ==
    /\ pc[s] = "locked" /\ words[s][1] = "ADD"
    /\ new_value' = [new_value EXCEPT ![s] = FAdd(x, operand[s])]
    /\ pc' = [pc EXCEPT ![s] = "store"]
    /\ NoRead
    /\ UNCHANGED commVars
    /\ UNCHANGED <<main_pc, x, mutex, words, operand, resp, nwritten,
                   history>>

\* subtract with its operands exchanged: value - guarded_state.x
subtract_swapped(s) ==
    /\ pc[s] = "locked" /\ words[s][1] = "SUBTRACT"
    /\ new_value' = [new_value EXCEPT ![s] = FSub(operand[s], x)]
    /\ pc' = [pc EXCEPT ![s] = "store"]
    /\ NoRead
    /\ UNCHANGED commVars
    /\ UNCHANGED <<main_pc, x, mutex, words, operand, resp, nwritten, history>>

\* subtract: let new_value = guarded_state.x - value
subtract(s) ==
    /\ pc[s] = "locked" /\ words[s][1] = "SUBTRACT"
    /\ new_value' = [new_value EXCEPT ![s] = FSub(x, operand[s])]
    /\ pc' = [pc EXCEPT ![s] = "store"]
    /\ NoRead
    /\ UNCHANGED commVars
    /\ UNCHANGED <<main_pc, x, mutex, words, operand, resp, nwritten,
                   history>>

\* power: let new_value = guarded_state.x.powf(value)
power(s) ==
    /\ pc[s] = "locked" /\ words[s][1] = "POWER"
    /\ new_value' = [new_value EXCEPT ![s] = FPow(x, operand[s])]
    /\ pc' = [pc EXCEPT ![s] = "store"]
    /\ NoRead
    /\ UNCHANGED commVars
    /\ UNCHANGED <<main_pc, x, mutex, words, operand, resp, nwritten,
                   history>>

\* the response of the arm that called add / subtract / power
FmtResponse(cmd, arg, v) ==
    CASE cmd = "ADD" -> FmtAdd(arg, v)
      [] cmd = "SUBTRACT" -> FmtSubtract(arg, v)
      [] OTHER -> FmtPower(arg, v)

\* the responses formatted from the cell as it is now: a store also rewrites
\* the result in every response still waiting to be written
Store_reformat_pending(s) ==
    /\ pc[s] = "store"
    /\ x' = new_value[s]
    /\ mutex' = 0
    /\ resp' = [t \in Sessions |->
                  IF t = s \/ (pc[t] = "write" /\ words[t][1] \in Mutating)
                  THEN FmtResponse(words[t][1], operand[t], new_value[s])
                  ELSE resp[t]]
    /\ pc' = [pc EXCEPT ![s] = "write"]
    /\ serial' = Apply(words[s][1], serial, operand[s])
    /\ applied' = applied + 1
    /\ NoRead
    /\ UNCHANGED commVars
    /\ UNCHANGED <<main_pc, words, operand, new_value, nwritten,
                   nlines, issued, solo, fold, due>>

\* what add / subtract / power leave in GlobalState.x
Stored(s) == new_value[s]

\* guarded_state.x = new_value; the guard is dropped at the return and the
\* caller formats the response
Store(s) ==
    /\ pc[s] = "store"
    /\ x' = Stored(s)
    /\ mutex' = 0
    /\ resp' = [resp EXCEPT ![s] = FmtResponse(words[s][1], operand[s], new_value[s])]
    /\ pc' = [pc EXCEPT ![s] = "write"]
    /\ serial' = Apply(words[s][1], serial, operand[s])
    /\ applied' = applied + 1
    /\ NoRead
    /\ UNCHANGED commVars
    /\ UNCHANGED <<main_pc, words, operand, new_value, nwritten,
                   nlines, issued, solo, fold, due>>

\* a show that clears the cell after reading it
Shown_cleared(s) == Num(0)

\* show returning its guard to the caller: the lock outlives the call
show_guard_kept(s) ==
    /\ pc[s] = "locked" /\ words[s][1] = "SHOW"
    /\ new_value' = [new_value EXCEPT ![s] = x]
    /\ resp' = [resp EXCEPT ![s] = FmtShow(x)]
    /\ pc' = [pc EXCEPT ![s] = "write"]
    /\ NoRead
    /\ UNCHANGED commVars
    /\ UNCHANGED <<main_pc, x, mutex, words, operand, nwritten, history>>

\* what show leaves in GlobalState.x
Shown(s) == x

\* show: reads guarded_state.x and drops the guard
show(s) ==
    /\ pc[s] = "locked" /\ words[s][1] = "SHOW"
    /\ new_value' = [new_value EXCEPT ![s] = x]
    /\ x' = Shown(s)
    /\ mutex' = 0
    /\ resp' = [resp EXCEPT ![s] = FmtShow(x)]
    /\ pc' = [pc EXCEPT ![s] = "write"]
    /\ NoRead
    /\ UNCHANGED commVars
    /\ UNCHANGED <<main_pc, words, operand, nwritten, history>>

\* the response left in a buffer that is not flushed before the next line
Write_buffered(s) ==
    /\ pc[s] = "write"
    /\ pc' = [pc EXCEPT ![s] = "read"]
    /\ EndOfPass(s)
    /\ NoRead
    /\ UNCHANGED commVars
    /\ UNCHANGED <<main_pc, x, mutex, nwritten, history>>

\* write_stream.write_all(response).await? succeeds: back to next_line
Write(s) ==
    /\ pc[s] = "write"
    /\ nwritten' = [nwritten EXCEPT ![s] = @ + 1]
    /\ pc' = [pc EXCEPT ![s] = "read"]
    /\ EndOfPass(s)
    /\ NoRead
    /\ UNCHANGED commVars
    /\ UNCHANGED <<main_pc, x, mutex, history>>

\* the ends of a session other than an operand that does not parse
Ends(s) == WriteFail(s) \/ ReadEof(s) \/ ReadFail(s) \/ Dropped(s)

Next ==
    \/ BindOk \/ BindFail \/ AcceptFail
    \/ \E s \in Sessions : Accept(s, MaxAccepts)
    \/ \E s \in Sessions :
          \/ Greet(s) \/ Lock(s) \/ Write(s) \/ Ends(s)
          \/ add(s) \/ subtract(s) \/ power(s) \/ Store(s) \/ show(s)
    \/ \E s \in Sessions, line \in Lines : ReadLine(s, line, MaxLines)

Spec == Init /\ [][Next]_vars

\* the steps of add / subtract / power / show after the lock is taken
InCall(s) == add(s) \/ subtract(s) \/ power(s) \/ show(s) \/ Store(s)

\* Scheduling: a thread that can take the free lock does, and a call that
\* holds the lock runs to its return (it has no .await).  Nothing is assumed
\* of the sockets: a peer may never send a line or never take a response, and
\* no connection need ever arrive.
Fairness == \A s \in Sessions : WF_vars(Lock(s)) /\ WF_vars(InCall(s))

SpecLive == Spec /\ Fairness

(***************************************************************************)
(* SpecAdd1: the peers send nothing but ADD 1 and SHOW, no connection      *)
(* fails or closes.                                                        *)
(***************************************************************************)
Add1Lines == { <<"ADD", WS, "1">>, <<"SHOW">> }

NextAdd1 ==
    \/ BindOk
    \/ \E s \in Sessions : Accept(s, MaxSessions)
    \/ \E s \in Sessions :
          Greet(s) \/ Lock(s) \/ Write(s) \/ add(s) \/ Store(s) \/ show(s)
    \/ \E s \in Sessions, line \in Add1Lines : ReadLine(s, line, AddLines)

SpecAdd1 == Init /\ [][NextAdd1]_vars

(***************************************************************************)
(* SpecFold: the peers send well-formed commands whose operands make the   *)
(* operations not commute, no connection fails or closes.                  *)
(***************************************************************************)
FoldCommands ==
    { <<"ADD", WS, "5">>, <<"POWER", WS, "2">>, <<"SUBTRACT", WS, "25">>,
      <<"SHOW">> }

\* The finite values of a run stay in the model's integers: POWER is sent
\* only while |x| <= MaxBase and no command is between its dispatch and its
\* response.
InRange(line) ==
    line[1] = "POWER" =>
        /\ x.k = "num" /\ x.n <= MaxBase /\ 0 - x.n <= MaxBase
        /\ \A t \in Sessions : pc[t] \notin {"lock", "locked", "store"}

NextFold ==
    \/ BindOk
    \/ \E s \in Sessions : Accept(s, MaxAccepts)
    \/ \E s \in Sessions :
          \/ Greet(s) \/ Lock(s) \/ Write(s)
          \/ add(s) \/ subtract(s) \/ power(s) \/ Store(s) \/ show(s)
    \/ \E s \in Sessions, line \in FoldCommands :
          InRange(line) /\ ReadLine(s, line, FoldLines)

SpecFold == Init /\ [][NextFold]_vars

(***************************************************************************)
(* SpecIdent: the peers send the commands with a neutral operand, ADD 0,   *)
(* SUBTRACT 0 and POWER 1, among commands that bring the cell to each kind *)
(* of f64: finite values, both infinities, NaN (-inf + inf) and negative   *)
(* zero ((-inf) ^ -1).  No connection fails or closes.                     *)
(***************************************************************************)
IdentCommands ==
    { <<"ADD", WS, "0">>, <<"SUBTRACT", WS, "0">>, <<"POWER", WS, "1">>,
      <<"ADD", WS, "1">>, <<"ADD", WS, "inf">>, <<"ADD", WS, "-inf">>,
      <<"POWER", WS, "-1">>, <<"SHOW">> }

\* POWER -1 is sent only to a base whose reciprocal is a value of the model,
\* with no command between its dispatch and its response.
IdentInRange(line) ==
    line = <<"POWER", WS, "-1">> =>
        /\ x.k = "num" => (x.n <= 1 /\ 0 - x.n <= 1)
        /\ \A t \in Sessions : pc[t] \notin {"lock", "locked", "store"}

NextIdent ==
    \/ BindOk
    \/ \E s \in Sessions : Accept(s, IdentSessions)
    \/ \E s \in Sessions :
          \/ Greet(s) \/ Lock(s) \/ Write(s)
          \/ add(s) \/ subtract(s) \/ power(s) \/ Store(s) \/ show(s)
    \/ \E s \in Sessions, line \in IdentCommands :
          IdentInRange(line) /\ ReadLine(s, line, IdentLen)

SpecIdent == Init /\ [][NextIdent]_vars

(***************************************************************************)
(* SpecTokens: the peers send ADD 1, SHOW and lines of ADD, SUBTRACT and   *)
(* POWER that hold a token that is no number, with the right and with a    *)
(* wrong token count.  No connection fails or closes.                      *)
(***************************************************************************)
TokenLines ==
    { <<"ADD", WS, "1">>, <<"SHOW">>,
      <<"ADD", WS, "abc">>, <<"SUBTRACT", WS, "abc">>, <<"POWER", WS, "x">>,
      <<"ADD", WS, "abc", WS, "def">>, <<"SUBTRACT", WS, "x", WS, "1">>,
      <<"POWER", WS, "2", WS, "x">> }

NextTokens ==
    \/ BindOk
    \/ \E s \in Sessions : Accept(s, MaxAccepts)
    \/ \E s \in Sessions :
          Greet(s) \/ Lock(s) \/ Write(s) \/ add(s) \/ Store(s) \/ show(s)
    \/ \E s \in Sessions, line \in TokenLines : ReadLine(s, line, MaxLines)

SpecTokens == Init /\ [][NextTokens]_vars

(***************************************************************************)
(* communotron.  main spawns collect_apples, collect_oranges and           *)
(* report_results and runs generate_work itself.  Each critical section on *)
(* work_created is one statement under the lock and is one step here.  A   *)
(* send on a channel fails only once its receiver is dropped, and no       *)
(* receiver is dropped while generate_work runs: the collectors return     *)
(* only when their channel is closed or the reporter is gone, the reporter *)
(* only when both collectors are.                                          *)
(***************************************************************************)
ItemType == {"Apple", "Orange"}

\* the loop body of generate_work with the send ahead of the count
GenAfter_send_first(step) ==
    CASE step = "input" -> "send"
      [] step = "send" -> "count"
      [] OTHER -> "input"

\* the order of the loop body of generate_work: read_line, the counted
\* block, the send, and round again
GenAfter(step) ==
    CASE step = "input" -> "count"
      [] step = "count" -> "send"
      [] OTHER -> "input"

\* io::stdin().read_line(&mut input)? returns Ok, whatever the input
gw_read_line ==
    /\ gen_pc = "input"
    /\ work_created < MaxWork
    /\ gen_pc' = GenAfter("input")
    /\ UNCHANGED <<work_created, apples_rx, oranges_rx, ready_rx, apples_order,
                   oranges_order, message, work_completed, work_created_value>>
    /\ UNCHANGED calcVars

\* io::stdin().read_line(&mut input)? returns Err: generate_work and main
\* return it and the process ends with its threads
gw_read_line_fail ==
    /\ gen_pc = "input"
    /\ gen_pc' = "exit"
    /\ UNCHANGED <<work_created, apples_rx, oranges_rx, ready_rx, apples_order,
                   oranges_order, message, work_completed, work_created_value>>
    /\ UNCHANGED calcVars

\* { let mut guard = work_created.lock().unwrap(); *guard += 1; }
gw_count ==
    /\ gen_pc = "count"
    /\ work_created' = work_created + 1
    /\ gen_pc' = GenAfter("count")
    /\ UNCHANGED <<apples_rx, oranges_rx, ready_rx, apples_order,
                   oranges_order, message, work_completed, work_created_value>>
    /\ UNCHANGED calcVars

\* the item type and the container size are drawn and the order is sent
gw_send(item_type, container_size) ==
    /\ gen_pc = "send"
    /\ apples_rx' = IF item_type = "Apple" THEN Append(apples_rx, container_size)
                    ELSE apples_rx
    /\ oranges_rx' = IF item_type = "Orange" THEN Append(oranges_rx, container_size)
                     ELSE oranges_rx
    /\ gen_pc' = GenAfter("send")
    /\ UNCHANGED <<work_created, ready_rx, apples_order, oranges_order, message,
                   work_completed, work_created_value>>
    /\ UNCHANGED calcVars

\* collect_apples: for mut work_order in rx
collect_apples_recv ==
    /\ gen_pc # "exit"
    /\ apples_order = 0 /\ apples_rx # <<>>
    /\ apples_order' = Head(apples_rx)
    /\ apples_rx' = Tail(apples_rx)
    /\ UNCHANGED <<gen_pc, work_created, oranges_rx, ready_rx, oranges_order,
                   message, work_completed, work_created_value>>
    /\ UNCHANGED calcVars

\* collect_apples: the sleep, the apples collected, ready_tx.send(..)
collect_apples_send(apples_collected) ==
    /\ gen_pc # "exit"
    /\ apples_order # 0 /\ apples_collected <= apples_order
    /\ ready_rx' = Append(ready_rx, [container_size |-> apples_order,
                                      items_added |-> apples_collected,
                                      item_type |-> "Apple"])
    /\ apples_order' = 0
    /\ UNCHANGED <<gen_pc, work_created, apples_rx, oranges_rx, oranges_order,
                   message, work_completed, work_created_value>>
    /\ UNCHANGED calcVars

\* collect_oranges: for mut work_order in rx
collect_oranges_recv ==
    /\ gen_pc # "exit"
    /\ oranges_order = 0 /\ oranges_rx # <<>>
    /\ oranges_order' = Head(oranges_rx)
    /\ oranges_rx' = Tail(oranges_rx)
    /\ UNCHANGED <<gen_pc, work_created, apples_rx, ready_rx, apples_order,
                   message, work_completed, work_created_value>>
    /\ UNCHANGED calcVars

\* collect_oranges: the sleep, the oranges collected, ready_tx.send(..)
collect_oranges_send(oranges_collected) ==
    /\ gen_pc # "exit"
    /\ oranges_order # 0 /\ oranges_collected <= oranges_order
    /\ ready_rx' = Append(ready_rx, [container_size |-> oranges_order,
                                      items_added |-> oranges_collected,
                                      item_type |-> "Orange"])
    /\ oranges_order' = 0
    /\ UNCHANGED <<gen_pc, work_created, apples_rx, oranges_rx, apples_order,
                   message, work_completed, work_created_value>>
    /\ UNCHANGED calcVars

\* report_results: for message in rx
report_results_recv ==
    /\ gen_pc # "exit"
    /\ message = <<>> /\ ready_rx # <<>>
    /\ message' = <<Head(ready_rx)>>
    /\ ready_rx' = Tail(ready_rx)
    /\ UNCHANGED <<gen_pc, work_created, apples_rx, oranges_rx, apples_order,
                   oranges_order, work_completed, work_created_value>>
    /\ UNCHANGED calcVars

\* report_results: the counter read under its lock, work_completed += 1 and
\* the line printed
report_results_report ==
    /\ gen_pc # "exit"
    /\ message # <<>>
    /\ work_created_value' = work_created
    /\ work_completed' = work_completed + 1
    /\ message' = <<>>
    /\ UNCHANGED <<gen_pc, work_created, apples_rx, oranges_rx, ready_rx,
                   apples_order, oranges_order>>
    /\ UNCHANGED calcVars

NextComm ==
    \/ gw_read_line \/ gw_read_line_fail \/ gw_count
    \/ \E item_type \in ItemType, container_size \in 1..MaxContainer :
          gw_send(item_type, container_size)
    \/ collect_apples_recv
    \/ \E apples_collected \in 1..MaxContainer : collect_apples_send(apples_collected)
    \/ collect_oranges_recv
    \/ \E oranges_collected \in 1..MaxContainer :
          collect_oranges_send(oranges_collected)
    \/ report_results_recv \/ report_results_report

SpecComm == Init /\ [][NextComm]_vars

(***************************************************************************)
(* Properties.                                                             *)
(***************************************************************************)
\* sessions between the dispatch of a well-formed ADD/SUBTRACT/POWER and the
\* return of add / subtract / power
InFlight ==
    {s \in Sessions : pc[s] \in {"lock", "locked", "store"} /\ words[s][1] \in Mutating}

\* C1: under every interleaving the shared value is the result of applying
\* the commands stored so far one after another (serial, in the order of
\* their stores, which keeps each session's line order because a session has
\* one command at a time); every dispatched command is stored exactly once
\* (issued = applied + those still between dispatch and store); and a command
\* about to store computed its new value from the value the cell still
\* holds, with no other session inside add/subtract/power/show.
C1_Serializable ==
    /\ x = serial
    /\ issued = applied + Cardinality(InFlight)
    /\ Cardinality({s \in Sessions : pc[s] \in {"locked", "store"}}) <= 1
    /\ \A s \in Sessions :
          pc[s] = "store" =>
             /\ mutex = s
             /\ new_value[s] = Apply(words[s][1], x, operand[s])

\* a command has been stored, and now one session is about to store the
\* next while another waits for the lock with a command of its own
C1_Witness ==
    \E s, t \in Sessions :
       /\ s # t /\ pc[s] = "store" /\ pc[t] = "lock" /\ t \in InFlight
       /\ applied >= 1 /\ x # Num(0)

\* C2 (SpecAdd1, where every mutating line is ADD 1): once all ADD 1 lines
\* sent so far have been processed, the shared value is their number, and a
\* SHOW executed then reports exactly that number, whatever the interleaving.
C2_AddsAllCounted ==
    /\ [](issued = applied => x = Num(issued))
    /\ [][\A s \in Sessions :
            (show(s) /\ issued = applied) => resp'[s] = FmtShow(Num(issued))]_vars

\* two sessions have each sent ADD 1 twice, all four are processed, and a
\* third session holds the response X = 4 to its SHOW
C2_Witness ==
    \E s \in Sessions :
       /\ pc[s] = "write" /\ words[s] = <<"SHOW">> /\ resp[s] = "X = 4\r\n"
       /\ due[s] = 1
       /\ Cardinality({t \in Sessions : t # s /\ due[t] = 2 /\ pc[t] = "read"}) = 2
       /\ issued = 4 /\ applied = 4

\* C3 (SpecFold): while one session is the only one whose lines have been
\* read, the shared value after each of its lines is the left-to-right fold
\* of its commands over 0.0 (fold), and the response to each line carries
\* that value.
C3_SingleSessionFold ==
    \A s \in Sessions :
       solo = s =>
          /\ pc[s] \in {"read", "write"} => x = fold
          /\ (pc[s] = "write" /\ words[s][1] \in Mutating) =>
                /\ new_value[s] = fold
                /\ resp[s] = FmtResponse(words[s][1], operand[s], fold)
          /\ (pc[s] = "write" /\ words[s][1] = "SHOW") => resp[s] = FmtShow(fold)

\* ADD 5, POWER 2, SUBTRACT 25 from one session on a fresh server: the third
\* response is X -= 25 = 0 (the value before it must have been 25, which two
\* lines reach from 0 only as ADD 5, POWER 2)
C3_Witness ==
    /\ solo = 1 /\ nlines = 3 /\ pc[1] = "write" /\ nwritten[1] = 3
    /\ resp[1] = "X -= 25 = 0\r\n" /\ x = Num(0)

\* C4: once main is in the accept loop it stays there, whatever accept
\* returns.
C4_AcceptLoopNeverEnds ==
    [][main_pc = "accept" => main_pc' = "accept"]_vars

\* the step of session s that reads a line of the given kind
Reads(s, kind) == nlines' = nlines + 1 /\ last' = <<s, kind>>

\* C5: the step that reads a line with a recognised command name and the
\* wrong number of tokens writes nothing, prepares no response, leaves the
\* shared value and the lock alone and leaves the session waiting for its
\* next line.
C5_WrongCountIgnored ==
    [][\A s \in Sessions :
          Reads(s, "count") =>
             /\ pc'[s] = "read" /\ resp'[s] = ""
             /\ nwritten' = nwritten /\ x' = x /\ mutex' = mutex
             /\ applied' = applied /\ issued' = issued]_vars

\* a session that changed the value, was answered, then sent a line with a
\* wrong token count: it is open, the value is what it was
C5_Witness ==
    \E s \in Sessions :
       /\ last = <<s, "count">> /\ pc[s] = "read" /\ solo = s
       /\ nwritten[s] = 2 /\ x = Num(1)

\* C6: the step that reads ADD/SUBTRACT/POWER with one operand that does not
\* parse ends the session with nothing written and the shared value
\* untouched, and a session that has ended never reads, writes or calls
\* add/subtract/power/show again.
C6_BadOperandEndsSession ==
    [][\A s \in Sessions :
          /\ Reads(s, "operand") =>
                /\ pc'[s] = "done" /\ nwritten' = nwritten /\ x' = x
                /\ issued' = issued /\ applied' = applied
          /\ pc[s] = "done" =>
                /\ pc'[s] = "done" /\ nwritten'[s] = nwritten[s]
                /\ last'[1] = s => nlines' = nlines]_vars

\* a session was answered once and then ended on an unparsable operand
C6_Witness ==
    \E s \in Sessions :
       /\ last = <<s, "operand">> /\ pc[s] = "done"
       /\ nwritten[s] = 2 /\ due[s] = 1 /\ x # Num(0)

\* everything of session t a step leaves alone
SameSession(t) ==
    /\ pc'[t] = pc[t] /\ words'[t] = words[t] /\ operand'[t] = operand[t]
    /\ new_value'[t] = new_value[t] /\ resp'[t] = resp[t]
    /\ nwritten'[t] = nwritten[t]

\* C7: the step that ends a session (parse failure, read or write error,
\* peer disconnect) changes nothing of any other session, of the acceptor,
\* of the shared value or of the lock; and the lock is only ever held by a
\* session inside add/subtract/power/show, never by one that has ended, so
\* the cell stays usable and holds what the last completed operation stored.
C7_SessionEndIsolated ==
    /\ [](/\ mutex # 0 => pc[mutex] \in {"locked", "store"}
          /\ x = serial)
    /\ [][\A s \in Sessions :
            (pc[s] # "done" /\ pc'[s] = "done") =>
               /\ main_pc' = main_pc /\ x' = x /\ mutex' = mutex
               /\ \A t \in Sessions \ {s} : SameSession(t)]_vars

\* session 1 has just ended on an unparsable operand while session 2 waits
\* for the lock with its own command, and the acceptor is still in its loop
C7_Witness ==
    /\ last = <<1, "operand">> /\ pc[1] = "done"
    /\ pc[2] = "lock" /\ mutex = 0 /\ main_pc = "accept" /\ x # Num(0)

\* C8: the step that reads a non-empty line whose first word is none of ADD,
\* SUBTRACT, POWER, SHOW (whatever follows it) prepares the one response
\* Unknown command: <first word> and leaves the shared value alone; from
\* there the session writes exactly that line and waits for its next line,
\* unless the write itself fails.
C8_UnknownCommand ==
    [][\A s \in Sessions :
          /\ Reads(s, "unknown") =>
                /\ pc'[s] = "write"
                /\ words'[s][1] \notin {"ADD", "SUBTRACT", "POWER", "SHOW"}
                /\ resp'[s] = "Unknown command: " \o words'[s][1] \o "\r\n"
                /\ x' = x /\ nwritten' = nwritten /\ mutex' = mutex
          /\ (pc[s] = "write" /\ words[s][1] \notin Commands /\ pc'[s] # "write") =>
                /\ x' = x
                /\ \/ pc'[s] = "read" /\ nwritten'[s] = nwritten[s] + 1
                   \/ pc'[s] = "done" /\ nwritten'[s] = nwritten[s]]_vars

\* add 1 2 has just been read after an answered ADD 1: the session is about
\* to write Unknown command: add and the value is still the 1 the ADD 1 left
C8_Witness ==
    \E s \in Sessions :
       /\ last = <<s, "unknown">> /\ pc[s] = "write"
       /\ resp[s] = "Unknown command: add\r\n" /\ nwritten[s] = 2
       /\ due[s] = 2 /\ x = Num(1) /\ solo = s

\* C9: no step of a session whose current line is SHOW (reading the line,
\* taking the lock, show itself, writing the response) changes the shared
\* value, so whatever is computed afterwards starts from the same value as
\* without the SHOW.
C9_ShowReadsOnly ==
    [][\A s \in Sessions :
          ((words[s] = <<"SHOW">> \/ words'[s] = <<"SHOW">>) /\ pc'[s] # pc[s]) =>
             /\ x' = x /\ serial' = serial /\ applied' = applied]_vars

\* a SHOW has read a value other than the initial one
C9_Witness ==
    \E s \in Sessions :
       /\ pc[s] = "write" /\ words[s] = <<"SHOW">> /\ x # Num(0)
       /\ resp[s] = FmtShow(x)

\* C10: a session waiting for its next line has written, after the greeting,
\* exactly one line per line read so far that was a well-formed command or
\* an unrecognised one (due), and none for the empty, blank and wrong-count
\* lines; a session busy with a line has written all but the one for that
\* line; and reading an empty, blank or wrong-count line leaves the session
\* waiting for the next line.
C10_OneResponsePerLine ==
    /\ [](\A s \in Sessions :
            /\ pc[s] = "read" => nwritten[s] = 1 + due[s]
            /\ pc[s] \in {"lock", "locked", "store", "write"} => nwritten[s] = due[s])
    /\ [][\A s \in Sessions :
            (Reads(s, "empty") \/ Reads(s, "count")) =>
               /\ pc'[s] = "read" /\ nwritten' = nwritten /\ due' = due]_vars

\* one session has sent two lines that were answered and then an empty one
C10_Witness ==
    \E s \in Sessions :
       /\ last = <<s, "empty">> /\ pc[s] = "read" /\ nlines = 3 /\ solo = s
       /\ due[s] = 2 /\ nwritten[s] = 3

\* C11: the first line a session writes is the greeting and no later line is;
\* a session reads a line, is inside add/subtract/power/show or holds a
\* response only after its greeting has been written; and a session whose
\* greeting write fails ends with nothing written, nothing read and the
\* shared value untouched.
C11_GreetingFirst ==
    /\ [](\A s \in Sessions :
            /\ pc[s] \in {"lock", "locked", "store", "write"} => nwritten[s] >= 1
            /\ nwritten[s] = 0 => due[s] = 0 /\ words[s] = <<>> /\ solo # s)
    /\ [][\A s \in Sessions :
            /\ nwritten'[s] # nwritten[s] =>
                  /\ nwritten'[s] = nwritten[s] + 1
                  /\ (nwritten[s] = 0) <=> (resp[s] = Greeting)
            /\ last'[1] = s => nwritten[s] >= 1
            /\ (pc[s] = "greet" /\ pc'[s] = "done") =>
                  /\ nwritten'[s] = 0 /\ x' = x /\ nlines' = nlines]_vars

\* one session has been greeted and is answering its first command while the
\* other ended on its greeting write without having read or written anything
C11_Witness ==
    \E s, t \in Sessions :
       /\ pc[s] = "write" /\ nwritten[s] = 1 /\ due[s] = 1 /\ solo = s
       /\ pc[t] = "done" /\ nwritten[t] = 0

\* C12: the lock is held exactly by the session that is between the lock()
\* and the return of add/subtract/power/show, so by at most one session and
\* by none that is waiting for a line, writing the greeting or a response,
\* not yet started or ended.
C12_NoLockAcrossIO ==
    /\ \A s \in Sessions : (mutex = s) <=> (pc[s] \in {"locked", "store"})
    /\ Cardinality({s \in Sessions : pc[s] \in {"locked", "store"}}) <= 1
    /\ mutex \in {0} \cup Sessions

\* one session is writing the response to a command it has applied while
\* another is inside its call with the lock
C12_Witness ==
    \E s, t \in Sessions :
       /\ pc[s] = "write" /\ words[s][1] \in Mutating /\ x = new_value[s]
       /\ pc[t] = "locked" /\ mutex = t

\* C13 (SpecLive): a session that has a well-formed command and waits for
\* the lock always reaches the write of its response, with no step required
\* of any other session's socket; whenever sessions are inside or waiting
\* for a cell operation one of them can step; and whenever main is in its
\* loop and a connection arrives it can be accepted, whatever the sessions
\* accepted before are doing.
C13_NoBlocking ==
    /\ \A s \in Sessions : (pc[s] = "lock") ~> (pc[s] = "write")
    /\ []((\E s \in Sessions : pc[s] \in {"lock", "locked", "store"}) =>
             ENABLED (\E s \in Sessions : Lock(s) \/ InCall(s)))
    /\ []((main_pc = "accept" /\ \E s \in 1..MaxAccepts : pc[s] = "idle") =>
             ENABLED (\E s \in Sessions : Accept(s, MaxAccepts)))

\* a session accepted while another was open has got through show and holds
\* the value the other stored, while the other is still in the write of its
\* own response
C13_Witness ==
    \E s, t \in Sessions :
       /\ s > t /\ pc[s] = "write" /\ words[s] = <<"SHOW">>
       /\ pc[t] = "write" /\ words[t][1] \in Mutating /\ nwritten[t] = 1
       /\ resp[s] = FmtShow(new_value[t]) /\ x # Num(0) /\ main_pc = "accept"

\* a command whose operand is neutral for its operation on the reals
IsIdentity(cmd, arg) ==
    \/ cmd \in {"ADD", "SUBTRACT"} /\ arg = Num(0)
    \/ cmd = "POWER" /\ arg = Num(1)

\* C14 as stated (SpecIdent): whatever the cell holds, the store of ADD 0,
\* SUBTRACT 0 or POWER 1 leaves it the same value, and the response reports
\* that value.
C14_IdentityCommands ==
    [][\A s \in Sessions :
          (pc[s] = "store" /\ pc'[s] = "write"
             /\ IsIdentity(words[s][1], operand[s])) =>
                /\ x' = x
                /\ resp'[s] = FmtResponse(words[s][1], operand[s], x)]_vars

\* C14 as amended (SpecIdent): the same, except that ADD 0 on negative zero
\* leaves positive zero and reports 0 (-0.0 + 0.0 is +0.0); SUBTRACT 0 and
\* POWER 1 keep negative zero too.
C14_IdentityExceptNegZero ==
    [][\A s \in Sessions :
          (pc[s] = "store" /\ pc'[s] = "write"
             /\ IsIdentity(words[s][1], operand[s])) =>
                IF words[s][1] = "ADD" /\ x = NegZero
                THEN x' = Num(0) /\ resp'[s] = FmtAdd(Num(0), Num(0))
                ELSE /\ x' = x
                     /\ resp'[s] = FmtResponse(words[s][1], operand[s], x)]_vars

\* ADD -inf, POWER -1 have left negative zero and SUBTRACT 0 has kept it
C14_Witness ==
    \E s \in Sessions :
       /\ pc[s] = "write" /\ resp[s] = "X -= 0 = -0\r\n" /\ x = NegZero
       /\ nlines = 3

\* C15: a session takes its next line only when it has no command in
\* progress and has written the response to every line before; it stores
\* into the cell only when the responses to all its earlier lines are
\* written; and the k-th response it writes answers the k-th of its lines
\* that call for one.
C15_SequentialPerSession ==
    [][\A s \in Sessions :
          /\ last'[1] = s =>
                /\ pc[s] = "read" /\ words[s] = <<>>
                /\ nwritten[s] = 1 + due[s]
          /\ (pc[s] = "store" /\ pc'[s] = "write") => nwritten[s] = due[s]
          /\ (nwritten'[s] # nwritten[s] /\ nwritten[s] >= 1) =>
                /\ pc[s] = "write" /\ words[s] # <<>>
                /\ nwritten'[s] = 1 + due[s]]_vars

\* a session is about to store its second command, the response to its
\* first being written
C15_Witness ==
    \E s \in Sessions :
       /\ pc[s] = "store" /\ due[s] = 2 /\ nwritten[s] = 2 /\ solo = s
       /\ applied = 1

\* C16: the cell holds 0 until a command is stored; it changes only in the
\* store of a well-formed ADD, SUBTRACT or POWER, to that command applied to
\* what it held; accepting, greeting and ending a session leave it alone;
\* and any SHOW, of whatever session, reports the commands all sessions have
\* applied so far.
C16_OneSharedCell ==
    /\ [](applied = 0 => x = Num(0))
    /\ [][/\ x' # x =>
                \E s \in Sessions :
                   /\ pc[s] = "store" /\ pc'[s] = "write"
                   /\ words[s][1] \in Mutating
                   /\ x' = Apply(words[s][1], x, operand[s])
          /\ \A s \in Sessions :
                /\ (pc'[s] # pc[s] /\ (pc[s] \in {"idle", "greet"} \/ pc'[s] = "done"))
                      => x' = x
                /\ show(s) => resp'[s] = FmtShow(serial)]_vars

\* the first session has ended and the second holds the response of its
\* SHOW, its first line, with the value the first session left
C16_Witness ==
    /\ pc[1] = "done" /\ due[1] = 1 /\ applied = 1 /\ x # Num(0)
    /\ pc[2] = "write" /\ due[2] = 1 /\ words[2] = <<"SHOW">>
    /\ resp[2] = FmtShow(x)

\* C17: the response to ADD, SUBTRACT or POWER is formatted in the step that
\* stores, from the value that step computed from the cell it held locked;
\* and while the response waits to be written, whatever other sessions
\* store, it stays as it is.
C17_ResultFromOwnUpdate ==
    [][\A s \in Sessions :
          /\ (pc[s] = "store" /\ pc'[s] = "write") =>
                /\ x' = Apply(words[s][1], x, operand[s])
                /\ resp'[s] = FmtResponse(words[s][1], operand[s],
                                          Apply(words[s][1], x, operand[s]))
          /\ (pc[s] = "write" /\ pc'[s] = "write") => resp'[s] = resp[s]]_vars

\* a response waits to be written with a result the cell no longer holds
C17_Witness ==
    \E s \in Sessions :
       /\ pc[s] = "write" /\ words[s][1] \in Mutating /\ x # new_value[s]
       /\ resp[s] = FmtResponse(words[s][1], operand[s], new_value[s])
       /\ applied = 2

\* C18: a session that holds the response of ADD, SUBTRACT or POWER has its
\* command in the cell already (it is among those applied, the response not
\* yet written); the failure of that write ends the session and leaves the
\* cell and the count of applied commands as they are; and no session ends
\* between the dispatch of a command and its store.
C18_MutationSurvivesWriteFailure ==
    /\ [](\A s \in Sessions :
            (pc[s] = "write" /\ words[s][1] \in Mutating) =>
               /\ nwritten[s] = due[s] /\ applied >= 1
               /\ issued = applied + Cardinality(InFlight))
    /\ [][\A s \in Sessions :
            /\ (pc[s] = "write" /\ words[s][1] \in Mutating /\ pc'[s] = "done") =>
                  /\ x' = x /\ serial' = serial /\ applied' = applied
                  /\ nwritten'[s] = nwritten[s]
            /\ pc[s] \in {"lock", "locked", "store"} => pc'[s] # "done"]_vars

\* the first session ended without its one response written, and the second
\* session's SHOW reports the value its command left
C18_Witness ==
    /\ pc[1] = "done" /\ due[1] = 1 /\ nwritten[1] = 1 /\ applied = 1
    /\ pc[2] = "write" /\ words[2] = <<"SHOW">> /\ resp[2] = FmtShow(x)
    /\ x # Num(0) /\ nlines = 2

\* C19 (SpecTokens): reading a line of ADD, SUBTRACT or POWER whose token
\* count is not two leaves the session waiting for its next line with
\* nothing written and the cell untouched, whether or not its tokens are
\* numbers; and reading a line ends the session only if the line has exactly
\* two tokens, the second of which does not parse.
C19_CountBeforeParse ==
    [][\A s \in Sessions :
          last'[1] = s =>
             \A line \in TokenLines :
                ReadLine(s, line, MaxLines) =>
                   LET w == SplitWhitespace(line)
                   IN /\ (w[1] \in Mutating /\ Len(w) # 2) =>
                            /\ pc'[s] = "read" /\ x' = x
                            /\ nwritten' = nwritten /\ resp'[s] = ""
                      /\ pc'[s] = "done" =>
                            /\ Len(w) = 2 /\ w[1] \in Mutating
                            /\ ~ParseF64(w[2]).ok]_vars

\* after an answered ADD 1 the session has read a line with a wrong token
\* count (in SpecTokens each of those holds a token that is no number): it
\* is open and the value is kept
C19_Witness ==
    \E s \in Sessions :
       /\ last = <<s, "count">> /\ pc[s] = "read" /\ nlines = 2
       /\ due[s] = 1 /\ nwritten[s] = 2 /\ x = Num(1)

\* work orders and completion messages on their way from generate_work to
\* the count of report_results
Underway ==
    Len(apples_rx) + Len(oranges_rx) + Len(ready_rx) + Len(message)
    + (IF apples_order # 0 THEN 1 ELSE 0) + (IF oranges_order # 0 THEN 1 ELSE 0)
    + (IF gen_pc = "send" THEN 1 ELSE 0)

\* C20 (SpecComm): every report prints a completed count that is at most
\* the created count it read, which is at least 1; the created count read
\* is never more than the counter; and every item counted as created is
\* either completed or still underway as exactly one order or message, so
\* that the completed never outnumber the created.
C20_CompletedAtMostCreated ==
    /\ [](/\ work_completed >= 1 =>
                /\ work_completed <= work_created_value
                /\ work_created_value >= 1
           /\ work_created_value <= work_created
           /\ work_completed + Underway <= work_created)
    /\ [][work_completed' # work_completed =>
             /\ work_completed' = work_completed + 1
             /\ work_created_value' = work_created
             /\ work_completed' <= work_created_value']_vars

\* two reports made, the second when everything created was completed, and
\* a third item created since
C20_Witness ==
    /\ work_completed = 2 /\ work_created_value = 2 /\ work_created = 3
    /\ gen_pc = "send"

====
